---------------------------- MODULE Spec2Model ----------------------------
(***************************************************************************)
(* A model of next-pinecone-search: the index provisioner, the ingestion   *)
(* pipeline and the query pipeline of src/unnamed/part_000, the two        *)
(* LlamaEmbeddings clients of src/unnamed/part_001 (batching, retrying)    *)
(* and src/unnamed/part_002 (one request per document), and the remote     *)
(* services they talk to (vector index, embedding endpoint, completion     *)
(* service), each reduced to its request/response contract.                *)
(*                                                                         *)
(* An action is one run of JavaScript between two awaits: the code that    *)
(* runs when a call starts or when a remote response arrives, up to the    *)
(* next await.  Strings are sequences of one-character strings, so that    *)
(* formatting an id, stripping newlines and appending to a question are    *)
(* computed, not assumed.                                                  *)
(***************************************************************************)
EXTENDS Integers, Sequences, FiniteSets

(***************************************************************************)
(* Bounds of the model.                                                    *)
(***************************************************************************)
MaxChunks == 201
MaxDocs == 2
MaxRuns == 2
MaxTexts == 4
MaxBatchSize == 3
MaxConcurrency == 2
MaxRetries == 1
MaxMatches == 2
MaxCalls == 3

(***************************************************************************)
(* Constants of the program.                                               *)
(***************************************************************************)
batchSize == 100
LlamaBatchSize == 512
LlamaMaxConcurrency == 2
TopK == 10

NL == "\n"

Min(a, b) == IF a < b THEN a ELSE b

VARIABLES
    entry,              \* which entry point the caller invoked: "none" at first
    cfg,                \* the fields of the embedding client in use
    ecall,              \* the client's current embedQuery/embedDocuments call
    reqs,               \* the HTTP calls of that call, in the order they were made
    docs,               \* updatePinecone: its docs argument
    run,                \* updatePinecone: the number of runs started
    okRuns,             \* updatePinecone: the number of runs that returned normally
    upc,                \* updatePinecone: where the current run is
    docNo,              \* updatePinecone: the document being processed (1-based)
    embeddingsArrays,   \* updatePinecone: the vectors of the document's chunks
    idx,                \* updatePinecone: the loop index (0-based, as in the code)
    batch,              \* updatePinecone: the pending batch
    index,              \* the remote index: record id -> record
    upserts,            \* the upsert requests the current run has issued
    error,              \* updatePinecone: the error that left the current run
    question,           \* query pipeline: its question argument
    qpc,                \* query pipeline: where the call is
    queryRequest,       \* query pipeline: the query sent to the index
    queryResponse,      \* query pipeline: the index's answer
    llmCalls,           \* the completion calls issued, in order
    chainResult,        \* query pipeline: the completion service's answer
    qresult,            \* query pipeline: the value returned
    response,           \* POST /api/read: the response sent
    remoteAtStart,      \* the names of the indexes that existed at the start
    remoteIndexes,      \* the names of the indexes that exist remotely
    createRequests,     \* the creation requests sent to the index service, in order
    callers             \* createPineconeIndex: each caller's call

clientVars == <<cfg, ecall, reqs>>
ingestVars ==
    <<docs, run, okRuns, upc, docNo, embeddingsArrays, idx, batch, index, upserts, error>>
queryVars ==
    <<question, qpc, queryRequest, queryResponse, llmCalls, chainResult, qresult, response>>
provisionVars == <<remoteAtStart, remoteIndexes, createRequests, callers>>
vars == <<entry, cfg, ecall, reqs, docs, run, okRuns, upc, docNo,
          embeddingsArrays, idx, batch, index, upserts, error, question, qpc,
          queryRequest, queryResponse, llmCalls, chainResult, qresult, response,
          remoteAtStart, remoteIndexes, createRequests, callers>>

(***************************************************************************)
(* Text.                                                                   *)
(***************************************************************************)
DigitChars == <<"0", "1", "2", "3", "4", "5", "6", "7", "8", "9">>

\* `${n}` of a non-negative integer: its decimal digits.
RECURSIVE Decimal(_)
Decimal(n) ==
    IF n < 10 THEN <<DigitChars[n + 1]>>
    ELSE Append(Decimal(n \div 10), DigitChars[(n % 10) + 1])

\* t.replace(/\n/g, ' ')
StripNewLines(t) == [k \in 1..Len(t) |-> IF t[k] = NL THEN " " ELSE t[k]]

(***************************************************************************)
(* The embedding endpoint: POST {origin}/v1/embeddings answers with one    *)
(* embedding per input, in input order.  The vector of a text is kept      *)
(* symbolic: distinct texts have distinct vectors.                         *)
(***************************************************************************)
Embedding(t) == <<"vec", t>>

ResponseData(input) == [j \in 1..Len(input) |-> [embedding |-> Embedding(input[j])]]

(***************************************************************************)
(* The embedding clients.                                                  *)
(***************************************************************************)
NoCall ==
    [kind |-> "none", texts |-> <<>>, status |-> "idle", embeddings |-> <<>>,
     result |-> <<>>, error |-> 0]

\* A call that has just begun.
Pending(kind, texts) ==
    [kind |-> kind, texts |-> texts, status |-> "pending", embeddings |-> <<>>,
     result |-> <<>>, error |-> 0]

NoCfg == [impl |-> "none", batchSize |-> LlamaBatchSize,
          maxConcurrency |-> LlamaMaxConcurrency, maxRetries |-> 0,
          stripNewLines |-> TRUE]

\* new LlamaEmbeddings(fields) of part_001: the fields given, or the defaults.
Configs ==
    [impl : {"batched"},
     batchSize : 1..MaxBatchSize,
     maxConcurrency : 1..MaxConcurrency,
     maxRetries : 0..MaxRetries,
     stripNewLines : BOOLEAN]

\* new LlamaEmbeddings(params) of part_002: the caller's fields reach the base
\* class, the client itself reads none of them.
Configs2 ==
    [impl : {"simple"},
     batchSize : {LlamaBatchSize},
     maxConcurrency : {LlamaMaxConcurrency},
     maxRetries : 0..MaxRetries,
     stripNewLines : {FALSE}]

\* The client the pipelines construct with no fields: every default.  The
\* retries its caller allows by default are cut to the bound of the model.
DefaultConfig ==
    [impl |-> "batched", batchSize |-> LlamaBatchSize,
     maxConcurrency |-> LlamaMaxConcurrency, maxRetries |-> MaxRetries,
     stripNewLines |-> TRUE]

\* chunkArray(arr, chunkSize): consecutive groups of chunkSize, the last shorter.
chunkArray(arr, chunkSize) ==
    [b \in 1..((Len(arr) + chunkSize - 1) \div chunkSize) |->
        SubSeq(arr, (b - 1) * chunkSize + 1, Min(b * chunkSize, Len(arr)))]

\* The batches embedDocuments cuts texts into.
Batches(c, texts) ==
    chunkArray(IF c.stripNewLines
                 THEN [i \in 1..Len(texts) |-> StripNewLines(texts[i])]
                 ELSE texts,
               c.batchSize)

\* The attempts this.caller.call allows one call: the first and maxRetries more.
MaxAttempts(c) == c.maxRetries + 1

\* this.caller.call(axios.post, url, request): the call joins the caller's queue,
\* and runs at once when fewer than maxConcurrency calls are running.
Running(rs) == {i \in 1..Len(rs) : rs[i].status = "running"}

Queued(rs) == {i \in 1..Len(rs) : rs[i].status = "queued"}

\* Mutant of StartQueued: every queued call runs at once.
StartQueuedUncapped(c, rs) ==
    [i \in 1..Len(rs) |->
        IF rs[i].status = "queued" THEN [rs[i] EXCEPT !.status = "running", !.attempts = 1]
        ELSE rs[i]]

RECURSIVE StartQueued(_, _)
StartQueued(c, rs) ==
    IF Queued(rs) = {} \/ Cardinality(Running(rs)) >= c.maxConcurrency THEN rs
    ELSE LET i == CHOOSE q \in Queued(rs) : \A r \in Queued(rs) : q <= r
         IN StartQueued(c, [rs EXCEPT ![i].status = "running", ![i].attempts = 1])

embeddingWithRetry(c, rs, request) ==
    StartQueued(c, Append(rs, [input |-> request.input, status |-> "queued",
                               attempts |-> 0, data |-> <<>>]))

RECURSIVE MapEmbeddingWithRetry(_, _, _)
MapEmbeddingWithRetry(c, rs, batches) ==
    IF batches = <<>> THEN rs
    ELSE MapEmbeddingWithRetry(c, embeddingWithRetry(c, rs, [input |-> Head(batches)]),
                               Tail(batches))

\* Mutant of Reassemble: only the first vector of each response is taken.
ReassembleHeads(batches, batchResponses, i) ==
    [b \in 1..Len(batchResponses) |-> batchResponses[b].data[1].embedding]

\* The reassembly loop of embedDocuments: response i holds the vectors of batch i.
RECURSIVE Reassemble(_, _, _)
Reassemble(batches, batchResponses, i) ==
    IF i > Len(batchResponses) THEN <<>>
    ELSE [j \in 1..Len(batches[i]) |-> batchResponses[i].data[j].embedding]
         \o Reassemble(batches, batchResponses, i + 1)

\* Mutant of Join: the call waits for every request to settle and resolves with
\* the vectors of those that answered.
JoinSettled(c, call, rs) ==
    IF call.status # "pending" THEN call
    ELSE IF \A i \in 1..Len(rs) : rs[i].status \in {"ok", "failed"}
        THEN [call EXCEPT !.status = "resolved",
                          !.result = [i \in {k \in 1..Len(rs) : rs[k].status = "ok"} |->
                                         rs[i].data[1].embedding]]
    ELSE call

\* await Promise.all(batchRequests), then the reassembly: the call rejects with
\* the error of the request that has failed (error i is that of request i),
\* resolves when every request has answered, waits otherwise.
Join(c, call, rs) ==
    IF call.status # "pending" THEN call
    ELSE IF \E i \in 1..Len(rs) : rs[i].status = "failed"
        THEN [call EXCEPT !.status = "rejected",
                          !.error = CHOOSE i \in 1..Len(rs) : rs[i].status = "failed"]
    ELSE IF \A i \in 1..Len(rs) : rs[i].status = "ok"
        THEN [call EXCEPT !.status = "resolved",
                          !.result = IF call.kind = "query"
                                       THEN rs[1].data[1].embedding
                                       ELSE Reassemble(Batches(c, call.texts), rs, 1)]
    ELSE call

\* embedDocuments(texts) of part_001, up to its await.
embedDocuments(c, texts) ==
    LET rs == MapEmbeddingWithRetry(c, <<>>, Batches(c, texts))
    IN  /\ cfg' = c
        /\ reqs' = rs
        /\ ecall' = Join(c, Pending("documents", texts), rs)

\* embedQuery(text) of part_001, up to its await.
embedQuery(c, text) ==
    LET rs == embeddingWithRetry(c, <<>>,
                  [input |-> <<IF c.stripNewLines THEN StripNewLines(text) ELSE text>>])
    IN  /\ cfg' = c
        /\ reqs' = rs
        /\ ecall' = Pending("query", <<text>>)

\* The endpoint answers request i of the batching client.
HttpOk(i) ==
    /\ cfg.impl = "batched"
    /\ i \in Running(reqs)
    /\ LET rs == StartQueued(cfg, [reqs EXCEPT ![i].status = "ok",
                                               ![i].data = ResponseData(reqs[i].input)])
       IN  /\ reqs' = rs
           /\ ecall' = Join(cfg, ecall, rs)
    /\ UNCHANGED <<entry, cfg, ingestVars, queryVars, provisionVars>>

\* Request i of the batching client fails: the caller tries again, and gives up
\* after MaxAttempts.
HttpFail(i) ==
    /\ cfg.impl = "batched"
    /\ i \in Running(reqs)
    /\ LET rs == IF reqs[i].attempts < MaxAttempts(cfg)
                   THEN [reqs EXCEPT ![i].attempts = @ + 1]
                   ELSE StartQueued(cfg, [reqs EXCEPT ![i].status = "failed"])
       IN  /\ reqs' = rs
           /\ ecall' = Join(cfg, ecall, rs)
    /\ UNCHANGED <<entry, cfg, ingestVars, queryVars, provisionVars>>

(***************************************************************************)
(* The client of part_002: one request per document, one after the other.  *)
(***************************************************************************)
\* embedWithRetry(input): axios.post is called once; its error is thrown again.
embedWithRetry(rs, input) ==
    Append(rs, [input |-> <<input>>, status |-> "running", attempts |-> 1,
                data |-> <<>>])

\* embedDocuments(documents) of part_002, up to its first await.
embedDocuments2(c, documents) ==
    /\ cfg' = c
    /\ IF documents = <<>>
         THEN /\ reqs' = <<>>
              /\ ecall' = [Pending("documents", documents) EXCEPT !.status = "resolved"]
         ELSE /\ reqs' = embedWithRetry(<<>>, documents[1])
              /\ ecall' = Pending("documents", documents)

\* embedQuery(text) of part_002, up to its await.
embedQuery2(c, text) ==
    /\ cfg' = c
    /\ reqs' = embedWithRetry(<<>>, text)
    /\ ecall' = Pending("query", <<text>>)

\* The endpoint answers the request in flight: embedQuery returns its vector,
\* embedDocuments pushes it and goes to the next document, or returns.
Http2Ok ==
    /\ cfg.impl = "simple"
    /\ ecall.status = "pending"
    /\ LET i == Len(reqs)
           result == [data |-> ResponseData(reqs[i].input)]
           pushed == Append(ecall.embeddings, result.data[1].embedding)
       IN  IF ecall.kind = "query"
             THEN /\ reqs' = [reqs EXCEPT ![i].status = "ok", ![i].data = result.data]
                  /\ ecall' = [ecall EXCEPT !.status = "resolved",
                                            !.result = result.data[1].embedding]
             ELSE IF i < Len(ecall.texts)
               THEN /\ reqs' = embedWithRetry(
                                   [reqs EXCEPT ![i].status = "ok", ![i].data = result.data],
                                   ecall.texts[i + 1])
                    /\ ecall' = [ecall EXCEPT !.embeddings = pushed]
               ELSE /\ reqs' = [reqs EXCEPT ![i].status = "ok", ![i].data = result.data]
                    /\ ecall' = [ecall EXCEPT !.status = "resolved",
                                              !.embeddings = pushed, !.result = pushed]
    /\ UNCHANGED <<entry, cfg, ingestVars, queryVars, provisionVars>>

\* The request in flight fails: the error leaves the call.
Http2Fail ==
    /\ cfg.impl = "simple"
    /\ ecall.status = "pending"
    /\ reqs' = [reqs EXCEPT ![Len(reqs)].status = "failed"]
    /\ ecall' = [ecall EXCEPT !.status = "rejected", !.error = Len(reqs)]
    /\ UNCHANGED <<entry, cfg, ingestVars, queryVars, provisionVars>>

(***************************************************************************)
(* The text splitter and the documents.  A document is its source path and *)
(* the number of chunks the splitter cuts its content into; chunk idx of   *)
(* source s reads s, a newline, idx.                                       *)
(***************************************************************************)
Sources == {<<"a">>, <<"a", "_", "1">>}

ChunkCounts == 0..MaxChunks

BoundaryCounts ==
    {0, 1, batchSize - 1, batchSize, batchSize + 1, 2 * batchSize, 2 * batchSize + 1}
    \cap ChunkCounts

SmallCounts == {0, 1, batchSize + 1} \cap ChunkCounts

Document(source, n) == [metadata |-> [source |-> source], pageContent |-> n]

\* The docs arguments: no document, one document of any number of chunks, and
\* lists of documents whose numbers of chunks lie around the batch size.
DocLists ==
    {<<>>}
    \cup {<<Document(<<"a">>, n)>> : n \in ChunkCounts}
    \cup {<<Document(s, n)>> : s \in Sources, n \in BoundaryCounts}
    \cup UNION {[1..k -> {Document(s, n) : s \in Sources, n \in SmallCounts}] :
                   k \in 2..MaxDocs}

\* textSplitter.createDocuments([text])
createDocuments(doc) ==
    [i \in 1..doc.pageContent |->
        [pageContent |-> doc.metadata.source \o <<NL>> \o Decimal(i - 1)]]

(***************************************************************************)
(* The remote index: upsert writes each record under its id.               *)
(***************************************************************************)
Upsert(ix, vectors) ==
    LET ids == {vectors[k].id : k \in 1..Len(vectors)}
        last(id) == CHOOSE k \in 1..Len(vectors) :
                        /\ vectors[k].id = id
                        /\ \A m \in (k + 1)..Len(vectors) : vectors[m].id # id
    IN  [id \in DOMAIN ix \cup ids |-> IF id \in ids THEN vectors[last(id)] ELSE ix[id]]

(***************************************************************************)
(* updatePinecone.                                                         *)
(***************************************************************************)
\* Mutant of Vector: the id is made anew in every run.
VectorFreshId(txtPath, chunks, embeddings, i) ==
    [id |-> txtPath \o <<"_">> \o Decimal(i) \o <<"_">> \o Decimal(run),
     values |-> embeddings[i + 1],
     metadata |-> [pageContent |-> chunks[i + 1].pageContent, txtPath |-> txtPath]]

\* Mutant of Vector: the values are the vector of the next chunk.
VectorOfNext(txtPath, chunks, embeddings, i) ==
    [id |-> txtPath \o <<"_">> \o Decimal(i),
     values |-> embeddings[IF i + 2 <= Len(embeddings) THEN i + 2 ELSE 1],
     metadata |-> [pageContent |-> chunks[i + 1].pageContent, txtPath |-> txtPath]]

\* The record of chunk idx (0-based) of the document.
Vector(txtPath, chunks, embeddings, i) ==
    [id |-> txtPath \o <<"_">> \o Decimal(i),
     values |-> embeddings[i + 1],
     metadata |-> [pageContent |-> chunks[i + 1].pageContent, txtPath |-> txtPath]]

\* Mutant of Flush: the batch is flushed one record late.
FlushLate(length, i, n) == length = batchSize + 1 \/ i = n - 1

\* Mutant of Flush: the batch is flushed when full, and not at the last item.
FlushWhenFull(length, i, n) == length = batchSize

\* When batch is full, or it's the last item, upsert the vectors: the test made
\* at index i of n chunks on a batch of the given length.
Flush(length, i, n) == length = batchSize \/ i = n - 1

\* Mutant of ChunkLoop: the batch is flushed when full, and what is left of it
\* after the loop, whatever that is.
ChunkLoopFlushAfter(txtPath, chunks, embeddings, i, b) ==
    LET n == Len(chunks)
        stops == {k \in i..(n - 1) : Len(b) + (k - i + 1) = batchSize}
        upTo(k) == b \o [j \in 1..(k - i + 1) |->
                            Vector(txtPath, chunks, embeddings, i + j - 1)]
    IN  IF stops = {}
          THEN IF i <= n
                 THEN [at |-> "upsert", idx |-> n, batch |-> upTo(n - 1)]
                 ELSE [at |-> "end", idx |-> i, batch |-> b]
          ELSE LET k == CHOOSE m \in stops : \A o \in stops : m <= o
               IN  [at |-> "upsert", idx |-> k, batch |-> upTo(k)]

\* Mutant of ChunkLoop: one batch is shared by the documents, and is flushed
\* when full or at the last item of the last document.
ChunkLoopShared(txtPath, chunks, embeddings, i, b) ==
    LET n == Len(chunks)
        b0 == IF i = 0 THEN batch ELSE b
        stops == {k \in i..(n - 1) :
                     \/ Len(b0) + (k - i + 1) = batchSize
                     \/ k = n - 1 /\ docNo = Len(docs)}
        upTo(k) == b0 \o [j \in 1..(k - i + 1) |->
                             Vector(txtPath, chunks, embeddings, i + j - 1)]
    IN  IF stops = {}
          THEN [at |-> "end", idx |-> IF i < n THEN n ELSE i, batch |-> upTo(n - 1)]
          ELSE LET k == CHOOSE m \in stops : \A o \in stops : m <= o
               IN  [at |-> "upsert", idx |-> k, batch |-> upTo(k)]

\* The chunk loop from index i with pending batch b, up to its next await (the
\* upsert of a batch) or its end: one record is appended per index, and the loop
\* stops at the first index where the flush test holds.
ChunkLoop(txtPath, chunks, embeddings, i, b) ==
    LET n == Len(chunks)
        stops == {k \in i..(n - 1) : Flush(Len(b) + (k - i + 1), k, n)}
        upTo(k) == b \o [j \in 1..(k - i + 1) |->
                            Vector(txtPath, chunks, embeddings, i + j - 1)]
    IN  IF stops = {}
          THEN [at |-> "end", idx |-> IF i < n THEN n ELSE i, batch |-> upTo(n - 1)]
          ELSE LET k == CHOOSE m \in stops : \A o \in stops : m <= o
               IN  [at |-> "upsert", idx |-> k, batch |-> upTo(k)]

NoError == [from |-> "none", request |-> 0]

\* The for loop over docs moves to document d, or the run returns.
ForDoc(d) ==
    IF d <= Len(docs)
      THEN /\ upc' = "splitting"
           /\ docNo' = d
           /\ okRuns' = okRuns
      ELSE /\ upc' = "returned"
           /\ docNo' = docNo
           /\ okRuns' = okRuns + 1

\* updatePinecone(client, indexName, docs) is called, and runs to its first await.
CanUpdatePinecone ==
    /\ entry \in {"none", "updatePinecone"}
    /\ upc \in {"idle", "returned", "thrown"}
    /\ run < MaxRuns

updatePinecone(ds) ==
    /\ CanUpdatePinecone
    /\ entry' = "updatePinecone"
    /\ docs' = ds
    /\ run' = run + 1
    /\ upserts' = <<>>
    /\ error' = NoError
    /\ embeddingsArrays' = <<>>
    /\ idx' = 0
    /\ batch' = <<>>
    /\ IF ds # <<>>
         THEN upc' = "splitting" /\ docNo' = 1 /\ okRuns' = okRuns
         ELSE upc' = "returned" /\ docNo' = 0 /\ okRuns' = okRuns + 1
    /\ UNCHANGED <<clientVars, index, queryVars, provisionVars>>

\* The chunks are back: embedDocuments is called with their texts.
ChunksReady ==
    /\ upc = "splitting"
    /\ embedDocuments(DefaultConfig, [i \in 1..Len(createDocuments(docs[docNo])) |->
                                StripNewLines(createDocuments(docs[docNo])[i].pageContent)])
    /\ upc' = "embedding"
    /\ UNCHANGED <<entry, docs, run, okRuns, docNo, embeddingsArrays, idx, batch,
                   index, upserts, error, queryVars, provisionVars>>

\* The loop has stopped at r: an upsert request goes out, or the loop is over.
AfterLoop(r) ==
    /\ idx' = r.idx
    /\ batch' = r.batch
    /\ IF r.at = "upsert"
         THEN /\ upserts' = Append(upserts, [vectors |-> r.batch, doc |-> docNo])
              /\ upc' = "upserting"
              /\ UNCHANGED <<docNo, okRuns>>
         ELSE /\ upserts' = upserts
              /\ ForDoc(docNo + 1)

\* embedDocuments has resolved: the chunk loop starts.
EmbeddingsReady ==
    /\ upc = "embedding"
    /\ ecall.status = "resolved"
    /\ embeddingsArrays' = ecall.result
    /\ AfterLoop(ChunkLoop(docs[docNo].metadata.source, createDocuments(docs[docNo]),
                           ecall.result, 0, <<>>))
    /\ ecall' = NoCall
    /\ reqs' = <<>>
    /\ UNCHANGED <<entry, cfg, docs, run, index, error, queryVars, provisionVars>>

\* embedDocuments has rejected: the error leaves updatePinecone.
EmbeddingsFailed ==
    /\ upc = "embedding"
    /\ ecall.status = "rejected"
    /\ upc' = "thrown"
    /\ error' = [from |-> "embedDocuments", request |-> ecall.error]
    /\ ecall' = NoCall
    /\ reqs' = <<>>
    /\ UNCHANGED <<entry, cfg, docs, run, okRuns, docNo, embeddingsArrays, idx,
                   batch, index, upserts, queryVars, provisionVars>>

\* The index has taken the batch: the batch is emptied and the loop goes on.
UpsertOk ==
    /\ upc = "upserting"
    /\ index' = Upsert(index, batch)
    /\ AfterLoop(ChunkLoop(docs[docNo].metadata.source, createDocuments(docs[docNo]),
                           embeddingsArrays, idx + 1, <<>>))
    /\ UNCHANGED <<entry, clientVars, docs, run, embeddingsArrays, error, queryVars,
                   provisionVars>>

\* Mutant of UpsertFail: the batch is sent again.
UpsertFailResent ==
    /\ upc = "upserting"
    /\ upserts' = Append(upserts, [vectors |-> batch, doc |-> docNo])
    /\ UNCHANGED <<entry, clientVars, docs, run, okRuns, upc, docNo, embeddingsArrays,
                   idx, batch, index, error, queryVars, provisionVars>>

\* Mutant of UpsertFail: the records the run has written are taken back.
UpsertFailRollback ==
    /\ upc = "upserting"
    /\ upc' = "thrown"
    /\ error' = [from |-> "upsert", request |-> Len(upserts)]
    /\ index' = [id \in DOMAIN index \
                          UNION {{upserts[k].vectors[j].id :
                                     j \in 1..Len(upserts[k].vectors)} :
                                 k \in 1..Len(upserts)} |->
                    index[id]]
    /\ UNCHANGED <<entry, clientVars, docs, run, okRuns, docNo, embeddingsArrays, idx,
                   batch, upserts, queryVars, provisionVars>>

\* The upsert fails: the error leaves updatePinecone.
UpsertFail ==
    /\ upc = "upserting"
    /\ upc' = "thrown"
    /\ error' = [from |-> "upsert", request |-> Len(upserts)]
    /\ UNCHANGED <<entry, clientVars, docs, run, okRuns, docNo, embeddingsArrays, idx,
                   batch, index, upserts, queryVars, provisionVars>>

(***************************************************************************)
(* A direct call of the batching client.                                   *)
(***************************************************************************)
Text(i) == IF i % 2 = 1 THEN <<"t", NL>> \o Decimal(i) ELSE <<"t">> \o Decimal(i)

TextLists == {[i \in 1..n |-> Text(i)] : n \in 0..MaxTexts}

CallEmbedDocuments ==
    /\ entry = "none"
    /\ entry' = "embedDocuments"
    /\ \E c \in Configs, texts \in TextLists : embedDocuments(c, texts)
    /\ UNCHANGED <<ingestVars, queryVars, provisionVars>>

CallEmbedQuery ==
    /\ entry = "none"
    /\ entry' = "embedQuery"
    /\ \E c \in Configs, i \in 1..2 : embedQuery(c, Text(i))
    /\ UNCHANGED <<ingestVars, queryVars, provisionVars>>

(***************************************************************************)
(* A direct call of the client of part_002.                                *)
(***************************************************************************)
CallEmbedDocuments2 ==
    /\ entry = "none"
    /\ entry' = "embedDocuments"
    /\ \E c \in Configs2, texts \in TextLists : embedDocuments2(c, texts)
    /\ UNCHANGED <<ingestVars, queryVars, provisionVars>>

CallEmbedQuery2 ==
    /\ entry = "none"
    /\ entry' = "embedQuery"
    /\ \E c \in Configs2, i \in 1..2 : embedQuery2(c, Text(i))
    /\ UNCHANGED <<ingestVars, queryVars, provisionVars>>

(***************************************************************************)
(* queryPineconeVectorStoreAndQueryLLM, behind POST /api/read.              *)
(***************************************************************************)
Questions == {<<"w", "h", "o", "?">>, <<"w", "h", "y", NL>>}

StoredTexts == {<<"x">>, <<"y", "z">>}

Answers == {<<>>, <<"o", "k">>}

\* A match of the index: its metadata may lack the stored text.
Matches ==
    [hasPageContent : {TRUE}, pageContent : StoredTexts]
    \cup {[hasPageContent |-> FALSE, pageContent |-> <<>>]}

\* What index.query may answer: no matches field, or up to MaxMatches matches.
QueryResponses ==
    {[hasMatches |-> FALSE, matches |-> <<>>]}
    \cup {[hasMatches |-> TRUE, matches |-> m] :
            m \in UNION {[1..k -> Matches] : k \in 0..MaxMatches}}

\* ", trả lời bằng thơ nhé"
QuestionSuffix ==
    <<",", " ", "t", "r", "ả", " ", "l", "ờ", "i", " ", "b", "ằ", "n", "g", " ",
      "t", "h", "ơ", " ", "n", "h", "é">>

\* Mutant of QuestionAsked: the question goes out as it came.
QuestionVerbatim(q) == q

\* `${question}, trả lời bằng thơ nhé`
QuestionAsked(q) == q \o QuestionSuffix

\* match?.metadata?.pageContent, as Array.join writes it: a missing one as "".
PageContentOf(match) == IF match.hasPageContent THEN match.pageContent ELSE <<>>

\* queryResponse.matches.map(...).join(" ")
RECURSIVE JoinPageContent(_)
JoinPageContent(matches) ==
    IF matches = <<>> THEN <<>>
    ELSE IF Len(matches) = 1 THEN PageContentOf(matches[1])
    ELSE PageContentOf(matches[1]) \o <<" ">> \o JoinPageContent(Tail(matches))

\* Mutant of ChainCall: one context document per match.
ChainCallPerMatch(q, matches) ==
    [input_documents |-> [k \in 1..Len(matches) |->
                            [pageContent |-> PageContentOf(matches[k])]],
     question |-> QuestionAsked(q)]

\* The request of chain.call.
ChainCall(q, matches) ==
    [input_documents |-> <<[pageContent |-> JoinPageContent(matches)]>>,
     question |-> QuestionAsked(q)]

\* Mutant of HasMatches: an empty matches array counts as matches.
HasMatchesField(resp) == resp.hasMatches

\* queryResponse.matches?.length
HasMatches(resp) == resp.hasMatches /\ Len(resp.matches) > 0

NoResult == [defined |-> FALSE, text |-> <<>>]

NoResponse == [sent |-> FALSE, ok |-> FALSE, data |-> NoResult]

\* POST: the body is the question; the question is embedded first.
POST(body) ==
    /\ entry = "none"
    /\ entry' = "POST"
    /\ question' = body
    /\ qpc' = "embedding"
    /\ embedQuery(DefaultConfig, body)
    /\ UNCHANGED <<ingestVars, queryRequest, queryResponse, llmCalls, chainResult,
                   qresult, response, provisionVars>>

\* The question's vector is back: the index is queried for its top 10 matches.
QueryEmbeddingReady ==
    /\ qpc = "embedding"
    /\ ecall.status = "resolved"
    /\ queryRequest' = [topK |-> TopK, vector |-> ecall.result,
                        includeMetadata |-> TRUE, includeValues |-> TRUE]
    /\ qpc' = "querying"
    /\ ecall' = NoCall
    /\ UNCHANGED <<entry, cfg, reqs, ingestVars, question, queryResponse, llmCalls,
                   chainResult, qresult, response, provisionVars>>

\* embedQuery has rejected: the error leaves the pipeline.
QueryEmbeddingFailed ==
    /\ qpc = "embedding"
    /\ ecall.status = "rejected"
    /\ qpc' = "thrown"
    /\ ecall' = NoCall
    /\ UNCHANGED <<entry, cfg, reqs, ingestVars, question, queryRequest, queryResponse,
                   llmCalls, chainResult, qresult, response, provisionVars>>

\* The index answers: with matches the completion call goes out, without the
\* pipeline returns nothing.
QueryOk(resp) ==
    /\ qpc = "querying"
    /\ queryResponse' = resp
    /\ IF HasMatches(resp)
         THEN /\ llmCalls' = Append(llmCalls, ChainCall(question, resp.matches))
              /\ qpc' = "asking"
              /\ qresult' = qresult
         ELSE /\ llmCalls' = llmCalls
              /\ qpc' = "returned"
              /\ qresult' = NoResult
    /\ UNCHANGED <<entry, clientVars, ingestVars, question, queryRequest, chainResult,
                   response, provisionVars>>

\* The query fails: the error leaves the pipeline.
QueryFail ==
    /\ qpc = "querying"
    /\ qpc' = "thrown"
    /\ UNCHANGED <<entry, clientVars, ingestVars, question, queryRequest, queryResponse,
                   llmCalls, chainResult, qresult, response, provisionVars>>

\* The completion service answers: its text is returned.
ChainOk(text) ==
    /\ qpc = "asking"
    /\ chainResult' = [text |-> text]
    /\ qresult' = [defined |-> TRUE, text |-> chainResult'.text]
    /\ qpc' = "returned"
    /\ UNCHANGED <<entry, clientVars, ingestVars, question, queryRequest, queryResponse,
                   llmCalls, response, provisionVars>>

\* The completion call fails: the error leaves the pipeline.
ChainFail ==
    /\ qpc = "asking"
    /\ qpc' = "thrown"
    /\ UNCHANGED <<entry, clientVars, ingestVars, question, queryRequest, queryResponse,
                   llmCalls, chainResult, qresult, response, provisionVars>>

\* POST answers {data: text}, or the error leaves the handler.
Respond ==
    /\ qpc \in {"returned", "thrown"}
    /\ ~response.sent
    /\ response' = [sent |-> TRUE, ok |-> (qpc = "returned"),
                    data |-> IF qpc = "returned" THEN qresult ELSE NoResult]
    /\ UNCHANGED <<entry, clientVars, ingestVars, question, qpc, queryRequest,
                   queryResponse, llmCalls, chainResult, qresult, provisionVars>>

(***************************************************************************)
(* createPineconeIndex, and the index service's listing and creation.      *)
(***************************************************************************)
\* Two callers, so that two calls can interleave.
Callers == {1, 2}

\* The calls of createPineconeIndex made so far.
RECURSIVE CallsMade(_)
CallsMade(ps) ==
    IF ps = {} THEN 0
    ELSE LET p == CHOOSE q \in ps : TRUE
         IN  callers[p].calls + CallsMade(ps \ {p})

\* indexName of ./config
IndexName == "docs"

IndexNames == {IndexName, "notes"}

Dimensions == {8}

\* A caller: its call's arguments and locals, and of each call it has made the
\* index name, whether a creation request went out and how the call ended.
NoCaller ==
    [pc |-> "idle", indexName |-> "", vectorDimension |-> 0, existingIndexes |-> {},
     calls |-> 0, history |-> <<>>]

\* Mutant of Absent: the listing is not consulted.
AlwaysAbsent(existingIndexes, indexName) == TRUE

\* Mutant of Absent: a name some caller has already asked to create counts as
\* present.
AbsentAndUnrequested(existingIndexes, indexName) ==
    /\ indexName \notin existingIndexes
    /\ \A k \in 1..Len(createRequests) : createRequests[k].name # indexName

\* !existingIndexes.includes(indexName)
Absent(existingIndexes, indexName) == indexName \notin existingIndexes

\* createPineconeIndex(client, indexName, vectorDimension), up to listIndexes.
createPineconeIndex(p, name, dim) ==
    /\ callers[p].pc \in {"idle", "returned", "thrown"}
    /\ CallsMade(Callers) < MaxCalls
    /\ callers' = [callers EXCEPT ![p].pc = "listing", ![p].indexName = name,
                                  ![p].vectorDimension = dim,
                                  ![p].existingIndexes = {},
                                  ![p].calls = @ + 1,
                                  ![p].history =
                                      Append(@, [indexName |-> name, requested |-> FALSE,
                                                 outcome |-> "running"])]
    /\ UNCHANGED <<entry, clientVars, ingestVars, queryVars, remoteAtStart,
                   remoteIndexes, createRequests>>

\* The listing is back: an absent index is created, a present one is left alone.
ListIndexesOk(p) ==
    /\ callers[p].pc = "listing"
    /\ IF Absent(remoteIndexes, callers[p].indexName)
         THEN /\ createRequests' =
                    Append(createRequests,
                           [name |-> callers[p].indexName,
                            dimension |-> callers[p].vectorDimension,
                            metric |-> "cosine", by |-> p])
              /\ callers' = [callers EXCEPT ![p].pc = "creating",
                                            ![p].existingIndexes = remoteIndexes,
                                            ![p].history[Len(callers[p].history)].requested = TRUE]
         ELSE /\ createRequests' = createRequests
              /\ callers' = [callers EXCEPT ![p].pc = "returned",
                                            ![p].existingIndexes = remoteIndexes,
                                            ![p].history[Len(callers[p].history)].outcome = "returned"]
    /\ UNCHANGED <<entry, clientVars, ingestVars, queryVars, remoteAtStart,
                   remoteIndexes>>

\* listIndexes fails: the error leaves createPineconeIndex.
ListIndexesFail(p) ==
    /\ callers[p].pc = "listing"
    /\ callers' = [callers EXCEPT ![p].pc = "thrown",
                                  ![p].history[Len(callers[p].history)].outcome = "thrown"]
    /\ UNCHANGED <<entry, clientVars, ingestVars, queryVars, remoteAtStart,
                   remoteIndexes, createRequests>>

\* The service creates the index: the caller waits for it to initialize.
CreateIndexOk(p) ==
    /\ callers[p].pc = "creating"
    /\ callers[p].indexName \notin remoteIndexes
    /\ remoteIndexes' = remoteIndexes \cup {callers[p].indexName}
    /\ callers' = [callers EXCEPT ![p].pc = "waiting"]
    /\ UNCHANGED <<entry, clientVars, ingestVars, queryVars, remoteAtStart,
                   createRequests>>

\* The creation fails (the index exists by now, or the service is down): the
\* error leaves createPineconeIndex.
CreateIndexFail(p) ==
    /\ callers[p].pc = "creating"
    /\ callers' = [callers EXCEPT ![p].pc = "thrown",
                                  ![p].history[Len(callers[p].history)].outcome = "thrown"]
    /\ UNCHANGED <<entry, clientVars, ingestVars, queryVars, remoteAtStart,
                   remoteIndexes, createRequests>>

\* The wait of `timeout` milliseconds is over: createPineconeIndex returns.
TimeoutElapsed(p) ==
    /\ callers[p].pc = "waiting"
    /\ callers' = [callers EXCEPT ![p].pc = "returned",
                                  ![p].history[Len(callers[p].history)].outcome = "returned"]
    /\ UNCHANGED <<entry, clientVars, ingestVars, queryVars, remoteAtStart,
                   remoteIndexes, createRequests>>

(***************************************************************************)
(* The specifications.                                                     *)
(***************************************************************************)
InitIdle ==
    /\ entry = "none"
    /\ cfg = NoCfg
    /\ ecall = NoCall
    /\ reqs = <<>>
    /\ docs = <<>>
    /\ run = 0
    /\ okRuns = 0
    /\ upc = "idle"
    /\ docNo = 0
    /\ embeddingsArrays = <<>>
    /\ idx = 0
    /\ batch = <<>>
    /\ index = <<>>
    /\ upserts = <<>>
    /\ error = NoError
    /\ question = <<>>
    /\ qpc = "idle"
    /\ queryRequest = [topK |-> TopK, vector |-> <<>>, includeMetadata |-> TRUE,
                       includeValues |-> TRUE]
    /\ queryResponse = [hasMatches |-> FALSE, matches |-> <<>>]
    /\ llmCalls = <<>>
    /\ chainResult = [text |-> <<>>]
    /\ qresult = NoResult
    /\ response = NoResponse
    /\ createRequests = <<>>
    /\ callers = [p \in Callers |-> NoCaller]

\* The embedding clients and the two pipelines, with the index in place.
Init ==
    /\ InitIdle
    /\ remoteIndexes = {IndexName}
    /\ remoteAtStart = remoteIndexes

Next ==
    \/ CallEmbedDocuments
    \/ CallEmbedQuery
    \/ CallEmbedDocuments2
    \/ CallEmbedQuery2
    \/ \E i \in 1..Len(reqs) : HttpOk(i)
    \/ \E i \in 1..Len(reqs) : HttpFail(i)
    \/ Http2Ok
    \/ Http2Fail
    \/ \E ds \in (IF ~CanUpdatePinecone THEN {}
                  ELSE IF entry = "none" THEN DocLists ELSE {docs}) : updatePinecone(ds)
    \/ ChunksReady
    \/ EmbeddingsReady
    \/ EmbeddingsFailed
    \/ UpsertOk
    \/ UpsertFail
    \/ \E body \in Questions : POST(body)
    \/ QueryEmbeddingReady
    \/ QueryEmbeddingFailed
    \/ \E resp \in QueryResponses : QueryOk(resp)
    \/ QueryFail
    \/ \E text \in Answers : ChainOk(text)
    \/ ChainFail
    \/ Respond

Spec == Init /\ [][Next]_vars

\* The index provisioner: any remote listing to begin with, and two callers of
\* createPineconeIndex that interleave, MaxCalls calls between them.
InitProvision ==
    /\ InitIdle
    /\ remoteIndexes \in SUBSET IndexNames
    /\ remoteAtStart = remoteIndexes

NextProvision ==
    \/ \E p \in Callers, name \in IndexNames, dim \in Dimensions :
          createPineconeIndex(p, name, dim)
    \/ \E p \in Callers : ListIndexesOk(p)
    \/ \E p \in Callers : ListIndexesFail(p)
    \/ \E p \in Callers : CreateIndexOk(p)
    \/ \E p \in Callers : CreateIndexFail(p)
    \/ \E p \in Callers : TimeoutElapsed(p)

SpecProvision == InitProvision /\ [][NextProvision]_vars

(***************************************************************************)
(* The properties.                                                         *)
(***************************************************************************)
\* Document d of the current run has been processed to the end of its loop.
DocFinished(d) ==
    /\ d \in 1..Len(docs)
    /\ \/ upc = "returned"
       \/ upc \in {"splitting", "embedding", "upserting", "thrown"} /\ d < docNo

\* The upsert requests of document d, in the order they were issued.
UpsertsOf(d) == SelectSeq(upserts, LAMBDA r : r.doc = d)

\* The ids of the records of a sequence of requests, in the order sent.
RECURSIVE IdsSent(_)
IdsSent(rq) ==
    IF rq = <<>> THEN <<>>
    ELSE [k \in 1..Len(rq[1].vectors) |-> rq[1].vectors[k].id] \o IdsSent(Tail(rq))

\* S_i
IdOf(source, i) == source \o <<"_">> \o Decimal(i)

\* C1: a document of source S and M chunks that is processed without failure
\* is upserted as exactly the M records S_0 .. S_{M-1}, each once, in requests
\* of at most 100 records, each but the last of exactly 100, the last of M mod
\* 100 (100 when M is a positive multiple of 100).
C1_BatchedUpsert ==
    \A d \in 1..Len(docs) :
        DocFinished(d) =>
            LET S == docs[d].metadata.source
                M == docs[d].pageContent
                rq == UpsertsOf(d)
            IN  /\ IdsSent(rq) = [i \in 1..M |-> IdOf(S, i - 1)]
                /\ \A k \in 1..Len(rq) : Len(rq[k].vectors) <= 100
                /\ \A k \in 1..(Len(rq) - 1) : Len(rq[k].vectors) = 100
                /\ M = 0 => rq = <<>>
                /\ M > 0 => /\ rq # <<>>
                            /\ Len(rq[Len(rq)].vectors) =
                                   IF M % 100 = 0 THEN 100 ELSE M % 100

C1_Witness ==
    /\ upc = "returned"
    /\ Len(docs) = 1
    /\ docs[1].pageContent = 201
    /\ Len(upserts) = 3
    /\ Len(upserts[3].vectors) = 1

\* C2: a batch goes out only when it holds 100 records or ends with the last
\* chunk; when a document's loop has finished without failure the pending batch
\* is empty and every chunk's record is in the index.
C2_FlushedAtEnd ==
    /\ upc = "upserting" =>
          /\ batch = upserts[Len(upserts)].vectors
          /\ Len(batch) = 100 \/ idx = docs[docNo].pageContent - 1
    /\ upc \in {"splitting", "embedding", "returned"} => batch = <<>>
    /\ \A d \in 1..Len(docs) :
          DocFinished(d) =>
              \A i \in 0..(docs[d].pageContent - 1) :
                  IdOf(docs[d].metadata.source, i) \in DOMAIN index

C2_Witness ==
    /\ upc = "returned"
    /\ Len(docs) = 1
    /\ docs[1].pageContent = 101
    /\ batch = <<>>
    /\ Len(upserts[2].vectors) = 1
    /\ IdOf(docs[1].metadata.source, 100) \in DOMAIN index

\* C3: once a run over the documents has returned, running updatePinecone on
\* the same documents again leaves the set of record ids of the index as it
\* was: records are overwritten, none is added.
C3_ReingestOverwrites ==
    [][okRuns >= 1 => DOMAIN index' = DOMAIN index]_vars

C3_Witness ==
    /\ run = 2
    /\ okRuns = 2
    /\ upc = "returned"
    /\ Len(docs) = 1
    /\ docs[1].pageContent = 101
    /\ Cardinality(DOMAIN index) = 101

\* C4: when the index answers with no matches field or with no match, no
\* completion call is made, the pipeline returns nothing, and POST answers
\* without an error and without an answer text.
C4_NoMatchNoCompletion ==
    (qpc \in {"asking", "returned"} /\ ~(queryResponse.hasMatches
                                         /\ Len(queryResponse.matches) > 0)) =>
        /\ qpc = "returned"
        /\ llmCalls = <<>>
        /\ ~qresult.defined
        /\ response.sent => response.ok /\ ~response.data.defined

C4_Witness ==
    /\ response.sent
    /\ qpc = "returned"
    /\ queryResponse.hasMatches
    /\ queryResponse.matches = <<>>

\* The place of match k's text in the context: after the texts before it and a
\* space for each.
RECURSIVE OffsetOf(_, _)
OffsetOf(matches, k) ==
    IF k = 1 THEN 0
    ELSE OffsetOf(matches, k - 1)
         + (IF matches[k - 1].hasPageContent THEN Len(matches[k - 1].pageContent) ELSE 0)
         + 1

\* C5: when the index answers with K > 0 matches, exactly one completion call
\* is made, its context is one document that holds the stored texts of the K
\* matches in the order returned, a space between two, and the value returned
\* is the text of that call's answer.
C5_OneCompletionOverAllMatches ==
    (qpc \in {"asking", "returned", "thrown"} /\ queryResponse.hasMatches
     /\ Len(queryResponse.matches) > 0) =>
        LET m == queryResponse.matches
            K == Len(m)
        IN  /\ Len(llmCalls) = 1
            /\ Len(llmCalls[1].input_documents) = 1
            /\ LET ctx == llmCalls[1].input_documents[1].pageContent
                   len(k) == IF m[k].hasPageContent THEN Len(m[k].pageContent) ELSE 0
               IN  /\ Len(ctx) = OffsetOf(m, K) + len(K)
                   /\ \A k \in 1..K :
                         /\ m[k].hasPageContent =>
                               SubSeq(ctx, OffsetOf(m, k) + 1, OffsetOf(m, k) + len(k))
                                 = m[k].pageContent
                         /\ k > 1 => ctx[OffsetOf(m, k)] = " "
            /\ qpc = "returned" => qresult = [defined |-> TRUE, text |-> chainResult.text]

C5_Witness ==
    /\ qpc = "returned"
    /\ Len(queryResponse.matches) = 2
    /\ queryResponse.matches[1].hasPageContent
    /\ queryResponse.matches[2].hasPageContent
    /\ queryResponse.matches[1].pageContent # queryResponse.matches[2].pageContent
    /\ qresult.text = <<"o", "k">>

\* C6, as claimed: the question of the completion request is the question the
\* pipeline was called with.
C6_QuestionSentIsOriginal ==
    \A k \in 1..Len(llmCalls) : llmCalls[k].question = question

\* C6, amended: the question of the completion request is the question the
\* pipeline was called with, followed by ", trả lời bằng thơ nhé".
C6_QuestionSentHasSuffix ==
    \A k \in 1..Len(llmCalls) :
        LET q == llmCalls[k].question
        IN  /\ Len(q) = Len(question) + Len(QuestionSuffix)
            /\ SubSeq(q, 1, Len(question)) = question
            /\ SubSeq(q, Len(question) + 1, Len(q)) = QuestionSuffix

C6_Witness ==
    /\ qpc = "asking"
    /\ Len(llmCalls) = 1
    /\ question = <<"w", "h", "o", "?">>

\* The creation requests sent for index name n.
CreateRequestsFor(n) ==
    {k \in 1..Len(createRequests) : createRequests[k].name = n}

\* Caller p, alone, has called createPineconeIndex for n, absent at the start,
\* and that call has returned; p has called again for n and has its listing.
CalledTwice(p, n) ==
    /\ n \notin remoteAtStart
    /\ \A q \in Callers \ {p} : callers[q].calls = 0
    /\ Len(callers[p].history) = 2
    /\ callers[p].history[1] = [indexName |-> n, requested |-> TRUE,
                                outcome |-> "returned"]
    /\ callers[p].history[2].indexName = n
    /\ callers[p].pc # "listing"

\* C7: two calls of createPineconeIndex in sequence for the same name, absent
\* at the start, send exactly one creation request: the second call finds the
\* name in the listing and sends none.
C7_SecondCallSkipsCreation ==
    \A p \in Callers, n \in IndexNames :
        CalledTwice(p, n) =>
            /\ Cardinality(CreateRequestsFor(n)) = 1
            /\ ~callers[p].history[2].requested
            /\ callers[p].history[2].outcome = "returned" => n \in callers[p].existingIndexes

C7_Witness ==
    \E p \in Callers, n \in IndexNames :
        /\ CalledTwice(p, n)
        /\ callers[p].history[2].outcome = "returned"

\* The text whose vector the client asks for.
Sent(c, t) == IF c.stripNewLines THEN [k \in 1..Len(t) |-> IF t[k] = "\n" THEN " " ELSE t[k]]
              ELSE t

\* C8: embedDocuments(texts) resolves with one vector per text, the i-th that of
\* the i-th text (of the text as sent: newlines made spaces when the client
\* strips them), whatever the number of texts and the order of the answers.
C8_VectorsAligned ==
    (ecall.kind = "documents" /\ ecall.status = "resolved") =>
        /\ Len(ecall.result) = Len(ecall.texts)
        /\ \A i \in 1..Len(ecall.texts) :
              ecall.result[i] = Embedding(Sent(cfg, ecall.texts[i]))

C8_Witness ==
    /\ entry = "embedDocuments"
    /\ cfg.impl = "batched"
    /\ ecall.status = "resolved"
    /\ cfg.batchSize > 1
    /\ Len(ecall.texts) = cfg.batchSize + 1
    /\ Len(reqs) = 2
    /\ reqs[2].attempts > 1

\* C9, as claimed: every HTTP call of a client is tried again when it fails,
\* and at most the configured number of times: no call is tried more than
\* maxRetries + 1 times, and none has failed for good before that.
C9_EveryCallRetried ==
    \A i \in 1..Len(reqs) :
        /\ reqs[i].attempts <= cfg.maxRetries + 1
        /\ reqs[i].status = "failed" => reqs[i].attempts = cfg.maxRetries + 1

\* The calls of the client of part_001 are tried again, maxRetries + 1 times at
\* most, and fail for good only then.
C9_BatchedCallsRetried ==
    cfg.impl = "batched" =>
        \A i \in 1..Len(reqs) :
            /\ reqs[i].attempts <= cfg.maxRetries + 1
            /\ reqs[i].status = "failed" => reqs[i].attempts = cfg.maxRetries + 1

\* C10: when a request of an embedDocuments call has failed for good, the call
\* is rejected with that request's error and returns no vector, whatever the
\* other requests did; and when updatePinecone is left by that error, no
\* upsert has been issued for the document.
C10_NoPartialResult ==
    /\ (ecall.kind = "documents" /\ \E i \in 1..Len(reqs) : reqs[i].status = "failed") =>
          /\ ecall.status = "rejected"
          /\ ecall.result = <<>>
          /\ ecall.error \in 1..Len(reqs)
          /\ reqs[ecall.error].status = "failed"
    /\ (upc = "thrown" /\ error.from = "embedDocuments") =>
          /\ error.request > 0
          /\ \A k \in 1..Len(upserts) : upserts[k].doc # docNo

C10_Witness ==
    /\ ecall.kind = "documents"
    /\ ecall.status = "rejected"
    /\ \E i, j \in 1..Len(reqs) : reqs[i].status = "ok" /\ reqs[j].status = "failed"

\* The records of the requests, in the order sent.
RECURSIVE RecordsSent(_)
RecordsSent(rq) ==
    IF rq = <<>> THEN <<>> ELSE rq[1].vectors \o RecordsSent(Tail(rq))

\* The upsert requests of the current run that the index has taken: all of them,
\* but the last one while it is in flight or once it has failed.
UpsertsDone ==
    IF upc = "upserting" \/ (upc = "thrown" /\ error.from = "upsert")
      THEN SubSeq(upserts, 1, Len(upserts) - 1)
      ELSE upserts

\* C11: when an upsert request has failed, the error has left updatePinecone
\* (the run has not returned), the failed request is the last one the run has
\* issued, and every record of the requests before it, of this document and
\* of the documents before, is in the index as it was sent (as the last
\* request that carried its id sent it).
C11_NoRollback ==
    (upc = "thrown" /\ error.from = "upsert") =>
        /\ okRuns < run
        /\ error.request = Len(upserts)
        /\ upserts[Len(upserts)].doc = docNo
        /\ LET sent == RecordsSent(UpsertsDone)
           IN  \A k \in 1..Len(sent) :
                   /\ sent[k].id \in DOMAIN index
                   /\ (\A m \in (k + 1)..Len(sent) : sent[m].id # sent[k].id) =>
                          index[sent[k].id] = sent[k]

C11_Witness ==
    /\ upc = "thrown"
    /\ error.from = "upsert"
    /\ run = 1
    /\ Len(docs) = 1
    /\ docs[1].pageContent = 201
    /\ Len(upserts) = 3
    /\ IdOf(docs[1].metadata.source, 199) \in DOMAIN index
    /\ IdOf(docs[1].metadata.source, 200) \notin DOMAIN index

\* Caller p's current call is for n and has its listing, which lacked n.
ObservedAbsent(p, n) ==
    /\ callers[p].calls > 0
    /\ callers[p].indexName = n
    /\ n \notin callers[p].existingIndexes
    /\ \/ callers[p].pc \in {"creating", "waiting", "returned"}
       \/ callers[p].pc = "thrown" /\ callers[p].history[Len(callers[p].history)].requested

\* C12: nothing keeps two callers apart: every caller whose listing lacked the
\* name has sent a creation request for it, whatever the other caller has
\* sent, so two callers that both saw the name absent have sent two requests
\* for the one name.
C12_BothObserversCreate ==
    \A n \in IndexNames :
        LET observers == {p \in Callers : ObservedAbsent(p, n)}
        IN  /\ \A p \in observers :
                   /\ callers[p].history[Len(callers[p].history)].requested
                   /\ \E k \in CreateRequestsFor(n) : createRequests[k].by = p
            /\ Cardinality(observers) = 2 => Cardinality(CreateRequestsFor(n)) >= 2

\* Two creation requests for one name, absent at the start, by two callers in
\* their first calls, both waiting for the service's answer.
C12_Witness ==
    \E n \in IndexNames :
        /\ n \notin remoteAtStart
        /\ n \notin remoteIndexes
        /\ \A p \in Callers : /\ callers[p].calls = 1
                               /\ callers[p].pc = "creating"
                               /\ ObservedAbsent(p, n)
        /\ Cardinality(CreateRequestsFor(n)) = 2
        /\ createRequests[1].by # createRequests[2].by

\* The groups of texts a client sends, one HTTP call each: the batches of the
\* batching client, each document alone in the client of part_002.
BatchesOf(c, texts) ==
    IF c.impl = "simple" THEN [i \in 1..Len(texts) |-> <<texts[i]>>]
    ELSE Batches(c, texts)

RECURSIVE Concat(_)
Concat(ss) == IF ss = <<>> THEN <<>> ELSE Head(ss) \o Concat(Tail(ss))

\* An embedDocuments call whose first await has been reached: its batches are
\* consecutive groups of at most batchSize texts, every batch has its one call
\* (made before the first answer is awaited), and the call has resolved only
\* when every one of them has answered.
AllStartedThenJoined ==
    (ecall.kind = "documents" /\ ecall.status # "idle") =>
        LET bs == BatchesOf(cfg, ecall.texts)
        IN  /\ \A b \in 1..Len(bs) : Len(bs[b]) \in 1..cfg.batchSize
            /\ Concat(bs) = [i \in 1..Len(ecall.texts) |-> Sent(cfg, ecall.texts[i])]
            /\ Len(reqs) = Len(bs)
            /\ \A i \in 1..Len(reqs) : reqs[i].input = bs[i]
            /\ ecall.status = "resolved" => \A i \in 1..Len(reqs) : reqs[i].status = "ok"

\* C13, as claimed: embedDocuments, of either client, cuts its input into
\* consecutive batches of at most batchSize, makes exactly one call per batch,
\* all of them before it awaits any answer, and resolves only when all have
\* answered.
C13_AllStartedThenJoined == AllStartedThenJoined

\* The client of part_001 does so.
C13_BatchedAllStartedThenJoined == cfg.impl = "batched" => AllStartedThenJoined

\* The client of part_002 has one call in flight at most, and makes the call of
\* a document when the calls of the documents before it have answered.
C13_SimpleOneAtATime ==
    (cfg.impl = "simple" /\ ecall.kind = "documents") =>
        /\ Len(reqs) <= Len(ecall.texts)
        /\ \A i \in 1..(Len(reqs) - 1) : reqs[i].status = "ok"
        /\ \A i \in 1..Len(reqs) : reqs[i].input = <<ecall.texts[i]>>

\* C14: while and after an embedDocuments call, the HTTP calls of the client
\* that are in flight are at most maxConcurrency, whatever the number of
\* batches.
C14_InFlightCapped ==
    ecall.kind = "documents" => Cardinality(Running(reqs)) <= cfg.maxConcurrency

\* More batches than the cap: one has answered, the cap's worth are in flight
\* and one still waits for a slot.
C14_Witness ==
    /\ ecall.kind = "documents"
    /\ ecall.status = "pending"
    /\ cfg.impl = "batched"
    /\ cfg.maxConcurrency = LlamaMaxConcurrency
    /\ Len(reqs) > cfg.maxConcurrency + 1
    /\ Cardinality(Running(reqs)) = cfg.maxConcurrency
    /\ Queued(reqs) # {}
    /\ \E i \in 1..Len(reqs) : reqs[i].status = "ok"

\* C15: the pending batch is empty when a document's processing starts, and
\* the requests issued in the loop iteration of document d carry records of d
\* alone: its chunks from the first on, none of another document among them.
C15_NoBatchSpansDocuments ==
    /\ upc \in {"splitting", "embedding"} => batch = <<>>
    /\ \A k \in 1..Len(upserts) : upserts[k].doc \in 1..Len(docs)
    /\ \A d \in 1..Len(docs) :
          LET S == docs[d].metadata.source
              chunks == createDocuments(docs[d])
              sent == RecordsSent(UpsertsOf(d))
          IN  /\ Len(sent) <= Len(chunks)
              /\ \A p \in 1..Len(sent) :
                    /\ sent[p].id = IdOf(S, p - 1)
                    /\ sent[p].metadata.txtPath = S
                    /\ sent[p].metadata.pageContent = chunks[p].pageContent

\* Two documents of different sources, 101 chunks each: the one record left of
\* the first went out alone, before the first hundred of the second.
C15_Witness ==
    /\ upc = "returned"
    /\ Len(docs) = 2
    /\ docs[1].metadata.source # docs[2].metadata.source
    /\ docs[1].pageContent = batchSize + 1
    /\ docs[2].pageContent = batchSize + 1
    /\ Len(upserts) = 4
    /\ upserts[2].doc = 1
    /\ Len(upserts[2].vectors) = 1
    /\ upserts[3].doc = 2
    /\ Len(upserts[3].vectors) = batchSize

\* The ids of the records the current run has sent.  The run sends one record
\* for each chunk of each document it has got to, so the ids are as many as the
\* records when no two chunks share an id.
IdsOfRun == {RecordsSent(upserts)[p].id : p \in 1..Len(RecordsSent(upserts))}

\* C16, as claimed: whatever the list of documents, no two records of a run
\* carry the same id, and when the run has returned every chunk of every
\* document has its own record in the index.
C16_IdsUniqueAcrossDocuments ==
    /\ Cardinality(IdsOfRun) = Len(RecordsSent(upserts))
    /\ upc = "returned" =>
          \A d1, d2 \in 1..Len(docs) :
              \A i1 \in 0..(docs[d1].pageContent - 1), i2 \in 0..(docs[d2].pageContent - 1) :
                  <<d1, i1>> # <<d2, i2>> =>
                      IdOf(docs[d1].metadata.source, i1) # IdOf(docs[d2].metadata.source, i2)

\* The ids are unique when no two documents of the list have the same source:
\* an index holds no "_", so S_i tells S and i.
C16_IdsUniqueAcrossSources ==
    (\A d1, d2 \in 1..Len(docs) :
        d1 # d2 => docs[d1].metadata.source # docs[d2].metadata.source) =>
        Cardinality(IdsOfRun) = Len(RecordsSent(upserts))

\* Two documents of one source: the record of the second has taken the place
\* of the record of the first.
C16_Overwritten ==
    /\ upc = "returned"
    /\ run = 1
    /\ Len(docs) = 2
    /\ docs[1].pageContent = 1
    /\ docs[2].pageContent = 1
    /\ Len(upserts) = 2
    /\ upserts[1].vectors[1].id = upserts[2].vectors[1].id
    /\ Cardinality(DOMAIN index) = 1

\* C17: the record sent with id S_i has for values the vector of chunk i's
\* text (the i-th vector embedDocuments returned, that of the text as it was
\* sent: newlines made spaces) and for metadata text chunk i's raw text.
C17_ValuesMatchText ==
    \A d \in 1..Len(docs) :
        LET S == docs[d].metadata.source
            chunks == createDocuments(docs[d])
            sent == RecordsSent(UpsertsOf(d))
        IN  \A p \in 1..Len(sent) :
                /\ p <= Len(chunks)
                /\ sent[p].id = IdOf(S, p - 1)
                /\ sent[p].metadata.pageContent = chunks[p].pageContent
                /\ sent[p].values = Embedding(StripNewLines(chunks[p].pageContent))
                /\ d = docNo => /\ Len(embeddingsArrays) = Len(chunks)
                                /\ sent[p].values = embeddingsArrays[p]

\* A document of 101 chunks: the record of its last chunk went out alone, with
\* the last of the vectors and the last chunk's text.
C17_Witness ==
    /\ upc = "returned"
    /\ Len(docs) = 1
    /\ docs[1].pageContent = batchSize + 1
    /\ Len(upserts) = 2
    /\ upserts[2].vectors[1].id = IdOf(docs[1].metadata.source, batchSize)
    /\ upserts[2].vectors[1].values = embeddingsArrays[batchSize + 1]
    /\ upserts[2].vectors[1].values # embeddingsArrays[1]
    /\ upserts[2].vectors[1].metadata.pageContent =
           createDocuments(docs[1])[batchSize + 1].pageContent

\* The ids of the records of a request.
IdsOf(request) == {request.vectors[j].id : j \in 1..Len(request.vectors)}

\* C18: the documents are processed one after the other.  While a document is
\* split and embedded no upsert of it has been issued and every upsert issued
\* (all of documents before it) has been answered; once an upsert of a document
\* has been issued its embedding call is over; requests go out in the order
\* of the documents, each after the index has taken the one before, so one is
\* in flight at most; and no batch is sent twice.
C18_Sequential ==
    /\ upc \in {"splitting", "embedding"} =>
          \A k \in 1..Len(upserts) :
              /\ upserts[k].doc < docNo
              /\ IdsOf(upserts[k]) \subseteq DOMAIN index
    /\ (entry = "updatePinecone" /\ ecall.status # "idle") => upc = "embedding"
    /\ (\E k \in 1..Len(upserts) : upserts[k].doc = docNo) =>
          /\ ecall.status = "idle"
          /\ reqs = <<>>
    /\ \A k \in 1..(Len(upserts) - 1) :
          /\ upserts[k].doc <= upserts[k + 1].doc
          /\ IdsOf(upserts[k]) \subseteq DOMAIN index
    /\ upc \in {"returned", "idle"} =>
          \A k \in 1..Len(upserts) : IdsOf(upserts[k]) \subseteq DOMAIN index
    /\ \A k1, k2 \in 1..Len(upserts) : k1 # k2 => upserts[k1] # upserts[k2]
    /\ \A d \in 1..Len(docs) :
          Len(UpsertsOf(d)) <= (docs[d].pageContent + batchSize - 1) \div batchSize

\* The second document's texts are being embedded; the two requests of the
\* first, of 101 chunks, have been answered.
C18_Witness ==
    /\ upc = "embedding"
    /\ docNo = 2
    /\ ecall.status = "pending"
    /\ Running(reqs) # {}
    /\ Len(upserts) = 2
    /\ upserts[2].doc = 1
    /\ IdsOf(upserts[2]) \subseteq DOMAIN index
    /\ docs[2].pageContent > 0

\* C19: every upsert request carries at least 1 and at most 100 records, and
\* no request is issued for a document that splits into no chunk.
C19_NoEmptyUpsert ==
    /\ \A k \in 1..Len(upserts) : Len(upserts[k].vectors) \in 1..100
    /\ \A d \in 1..Len(docs) : docs[d].pageContent = 0 => UpsertsOf(d) = <<>>

\* A document of no chunk, then one of 101: the run has returned and its two
\* requests are those of the second document.
C19_Witness ==
    /\ upc = "returned"
    /\ Len(docs) = 2
    /\ docs[1].pageContent = 0
    /\ docs[2].pageContent = batchSize + 1
    /\ Len(upserts) = 2
    /\ upserts[1].doc = 2
    /\ Len(upserts[2].vectors) = 1

=============================================================================
